---------------------------- MODULE Spec2Model ----------------------------
(***************************************************************************)
(* The LSPB dashboard (frontend/app/viz/lspb-manipulator/page.tsx): the    *)
(* React state of LspbDashboard, its two effects (canvas redraw, animation *)
(* loop), the asynchronous click handler and the chart hover handlers.     *)
(*                                                                         *)
(* Representation of values:                                               *)
(*   - a JavaScript value that may be null/undefined is << >> (absent) or  *)
(*     <<v>> (present);                                                    *)
(*   - a joint angle is an integer k standing for k*pi/4;                  *)
(*   - a forward-kinematics coordinate is [nan, a, b] standing for         *)
(*     a + b*sqrt(2)/2, or NaN;                                            *)
(*   - a target coordinate is a reduced fraction [n, d].                   *)
(* One step of the model is one task of the browser event loop: an event   *)
(* handler or timer callback together with the re-render and the effects   *)
(* it causes.                                                              *)
(***************************************************************************)
EXTENDS Integers, Sequences, FiniteSets, Bags, TLC

VARIABLES
    L1, L2, L3, duration,      \* controls state                (l.25-28)
    currentAngles,             \* committed joint angles         (l.31)
    targetXY,                  \* target marker or null          (l.36)
    trajectory,                \* enriched samples               (l.39)
    isAnimating,               \*                                (l.40)
    currentFrame,              \*                                (l.41)
    hoverFrame,                \* chart scrubbing index or null  (l.42)
    error,                     \* error message or null          (l.43)
    displayAngles,             \* the render's displayAngles     (l.88)
    canvas,                    \* what drawCanvas drew last      (l.98)
    inflight,                  \* bag of suspended click handlers (l.235)
    curLoop,                   \* loop the effect cleanup can cancel
    leaked,                    \* bag of loops no cleanup can cancel
    mounted,                   \* the component is mounted
    gestures,                  \* user gestures handled so far
    superseded,                \* history: the requests of inflight that a
                               \* Reset or a newer request came after
    scrubStart,                \* history: currentAngles when the pointer
                               \* entered a chart of the Idle dashboard
    calls                      \* calls of the pure helpers on their own:
                               \* function, argument, result

dashboard == <<L1, L2, L3, duration, currentAngles, targetXY, trajectory,
               isAnimating, currentFrame, hoverFrame, error, displayAngles,
               canvas, inflight, curLoop, leaked, mounted, superseded, gestures,
               scrubStart>>

vars == <<dashboard, calls>>

----------------------------------------------------------------------------
(* Bounds of the model *)

MaxLen == 2          \* longest trajectory the service returns
MaxGestures == 3     \* user gestures in a run: clicks, pointer moves over a
                     \* chart, slider moves, Reset (leaving a chart only ends
                     \* what a pointer move began and is not counted)

----------------------------------------------------------------------------
(* Optional values *)

Null == << >>
Some(v) == <<v>>
Val(o) == o[1]

----------------------------------------------------------------------------
(* Constants of the program *)

CANVAS_WIDTH == 600
CANVAS_HEIGHT == 600
BASE_X == CANVAS_WIDTH \div 2
BASE_Y == CANVAS_HEIGHT \div 2

\* [Math.PI / 4, -Math.PI / 4, -Math.PI / 4] in units of pi/4
HomePose == <<Some(1), Some(-1), Some(-1)>>

----------------------------------------------------------------------------
(* Numbers a + b*sqrt(2)/2 and NaN *)

NaN == [nan |-> TRUE, a |-> 0, b |-> 0]
Num(a, b) == [nan |-> FALSE, a |-> a, b |-> b]
Add(p, q) == IF p.nan \/ q.nan THEN NaN ELSE Num(p.a + q.a, p.b + q.b)
Scale(l, p) == IF p.nan THEN NaN ELSE Num(l * p.a, l * p.b)

\* Math.cos(k*pi/4); the argument is absent when the sum of angles is NaN
Cos(k) ==
    IF k = Null THEN NaN
    ELSE LET r == Val(k) % 8 IN
         CASE r = 0 -> Num(1, 0)
           [] r = 1 -> Num(0, 1)
           [] r = 2 -> Num(0, 0)
           [] r = 3 -> Num(0, -1)
           [] r = 4 -> Num(-1, 0)
           [] r = 5 -> Num(0, -1)
           [] r = 6 -> Num(0, 0)
           [] r = 7 -> Num(0, 1)

\* Math.sin(x) = cos(x - pi/2)
Sin(k) == IF k = Null THEN NaN ELSE Cos(Some(Val(k) - 2))

\* currentAngle += q[i]: undefined or NaN operands give NaN
AddAngle(acc, q) == IF acc = Null \/ q = Null THEN Null ELSE Some(Val(acc) + Val(q))

\* mutant: each link is drawn at its own joint angle, not at the sum so far
getJointPositionsAbsolute(q, l1, l2, l3) ==
    LET lengths == <<l1, l2, l3>>
        pt[i \in 0..3] ==
            IF i = 0 THEN [x |-> Num(0, 0), y |-> Num(0, 0)]
            ELSE [x |-> Add(pt[i - 1].x, Scale(lengths[i], Cos(q[i]))),
                  y |-> Add(pt[i - 1].y, Scale(lengths[i], Sin(q[i])))]
    IN  <<pt[0], pt[1], pt[2], pt[3]>>

\* getJointPositions(q, l1, l2, l3): the chain of 4 points
getJointPositions(q, l1, l2, l3) ==
    LET lengths == <<l1, l2, l3>>
        ang[i \in 0..3] == IF i = 0 THEN Some(0) ELSE AddAngle(ang[i - 1], q[i])
        pt[i \in 0..3] ==
            IF i = 0 THEN [x |-> Num(0, 0), y |-> Num(0, 0)]
            ELSE [x |-> Add(pt[i - 1].x, Scale(lengths[i], Cos(ang[i]))),
                  y |-> Add(pt[i - 1].y, Scale(lengths[i], Sin(ang[i])))]
    IN  <<pt[0], pt[1], pt[2], pt[3]>>

\* mutant: the columns of the Jacobian are summed from the wrong end
getLiveJacobianReversed(q, l1, l2, l3) ==
    LET t1 == AddAngle(Some(0), q[1])
        t12 == AddAngle(t1, q[2])
        t123 == AddAngle(t12, q[3])
        Neg(p) == Scale(-1, p)
        s1 == Sin(t1)
        c1 == Cos(t1)
        s12 == Sin(t12)
        c12 == Cos(t12)
        s123 == Sin(t123)
        c123 == Cos(t123)
    IN  << << Add(Add(Neg(Scale(l1, s1)), Neg(Scale(l2, s12))), Neg(Scale(l3, s123))),
              Add(Neg(Scale(l1, s1)), Neg(Scale(l2, s12))),
              Neg(Scale(l1, s1)) >>,
           << Add(Add(Scale(l1, c1), Scale(l2, c12)), Scale(l3, c123)),
              Add(Scale(l1, c1), Scale(l2, c12)),
              Scale(l1, c1) >> >>

\* getLiveJacobian(q) with the lengths of the render
getLiveJacobian(q, l1, l2, l3) ==
    LET t1 == AddAngle(Some(0), q[1])
        t12 == AddAngle(t1, q[2])
        t123 == AddAngle(t12, q[3])
        Neg(p) == Scale(-1, p)
        s1 == Sin(t1)
        c1 == Cos(t1)
        s12 == Sin(t12)
        c12 == Cos(t12)
        s123 == Sin(t123)
        c123 == Cos(t123)
    IN  << << Add(Add(Neg(Scale(l1, s1)), Neg(Scale(l2, s12))), Neg(Scale(l3, s123))),
              Add(Neg(Scale(l2, s12)), Neg(Scale(l3, s123))),
              Neg(Scale(l3, s123)) >>,
           << Add(Add(Scale(l1, c1), Scale(l2, c12)), Scale(l3, c123)),
              Add(Scale(l2, c12), Scale(l3, c123)),
              Scale(l3, c123) >> >>

----------------------------------------------------------------------------
(* CoordinateMapper and ReachClamper (target coordinates are fractions) *)

Abs(n) == IF n < 0 THEN -n ELSE n

RECURSIVE GCD(_, _)
GCD(m, n) == IF n = 0 THEN m ELSE GCD(n, m % n)

\* the fraction n/d (d > 0) in lowest terms
Frac(n, d) ==
    LET g == GCD(Abs(n), d)
    IN  [n |-> n \div g, d |-> d \div g]

toCanvasCoords(x, y) == [cx |-> BASE_X + x, cy |-> BASE_Y - y]
\* mutant: the y axis is not turned upwards
toRobotCoordsNoFlip(cx, cy) == [x |-> cx - BASE_X, y |-> cy - BASE_Y]

toRobotCoords(cx, cy) == [x |-> cx - BASE_X, y |-> BASE_Y - cy]

\* Math.sqrt(x ** 2 + y ** 2), exact on the points the model clicks
Dist(x, y) == CHOOSE r \in 0..(Abs(x) + Abs(y)) : r * r = x * x + y * y

\* maxReach = l1 + l2 + l3 - 0.1, in tenths
MaxReach10(l1, l2, l3) == 10 * (l1 + l2 + l3) - 1

\* mutant: the clamping forgets the 0.1 buffer
ClampTargetNoBuffer(t, l1, l2, l3) ==
    LET dist == Dist(t.x, t.y)
        maxReach10 == 10 * (l1 + l2 + l3)
    IN  IF 10 * dist > maxReach10
        THEN [x |-> Frac(t.x * maxReach10, 10 * dist),
              y |-> Frac(t.y * maxReach10, 10 * dist)]
        ELSE [x |-> Frac(t.x, 1), y |-> Frac(t.y, 1)]

\* the clamping of handleCanvasClick: snap to the boundary when outside
ClampTarget(t, l1, l2, l3) ==
    LET dist == Dist(t.x, t.y)
        maxReach10 == MaxReach10(l1, l2, l3)
    IN  IF 10 * dist > maxReach10
        THEN [x |-> Frac(t.x * maxReach10, 10 * dist),
              y |-> Frac(t.y * maxReach10, 10 * dist)]
        ELSE [x |-> Frac(t.x, 1), y |-> Frac(t.y, 1)]

\* canvas-relative click position (clientX - rect.left, clientY - rect.top):
\* robot-space (180, 240), at distance 300, outside the reach
ClickPoints == {[cx |-> 480, cy |-> 60]}

----------------------------------------------------------------------------
(* The planning service: an opaque collaborator *)

Sample(t, a, b, c, ee) ==
    [time |-> t, q1 |-> a, q2 |-> b, q3 |-> c, ee_x |-> ee, ee_y |-> ee]

\* a well-formed answer of n samples; the service also sends Cartesian fields
Ramp(n) ==
    [i \in 1..n |-> Sample(Some(i - 1), Some(i - 1), Some(0), Some(1 - i),
                           Some(Num(1, 1)))]

\* a sample without q1, q2, q3
Malformed == << Sample(Some(0), Null, Null, Null, Null) >>

ServiceTrajectories == {Ramp(n) : n \in 0..MaxLen} \cup {Malformed}

\* fetch rejects; the response is not ok (with or without a detail); the
\* response is ok, with or without a trajectory field
Replies ==
    {[status |-> "rejected", detail |-> Null, trajectory |-> Null]}
    \cup {[status |-> "notok", detail |-> Null, trajectory |-> Null]}
    \cup {[status |-> "ok", detail |-> Null, trajectory |-> Null]}
    \cup {[status |-> "ok", detail |-> Null, trajectory |-> Some(t)] :
            t \in ServiceTrajectories}

\* data.trajectory.map(pt => ({...pt, ee_x: ee.x, ee_y: ee.y}))
Enrich(raw, l1, l2, l3) ==
    [i \in 1..Len(raw) |->
        LET ee == getJointPositions(<<raw[i].q1, raw[i].q2, raw[i].q3>>, l1, l2, l3)[4]
        IN  [raw[i] EXCEPT !.ee_x = Some(ee.x), !.ee_y = Some(ee.y)]]

\* slider values the model moves the controls to
L1Values == {100, 150}
L2Values == {80, 120}
L3Values == {60, 90}
DurationValues == {5, 20}     \* in units of the slider step, 0.5 s

----------------------------------------------------------------------------
(* React: state, render, effects *)

\* the state of the last committed render
S == [L1 |-> L1, L2 |-> L2, L3 |-> L3, duration |-> duration,
      currentAngles |-> currentAngles, targetXY |-> targetXY,
      trajectory |-> trajectory, isAnimating |-> isAnimating,
      currentFrame |-> currentFrame, hoverFrame |-> hoverFrame,
      error |-> error]

At(traj, i) == traj[i + 1]
Angles(pt) == <<pt.q1, pt.q2, pt.q3>>
Lengths(s) == <<s.L1, s.L2, s.L3>>

\* hoverFrame !== null && trajectory[hoverFrame]
HoverValid(s) == s.hoverFrame # Null /\ Val(s.hoverFrame) < Len(s.trajectory)

\* mutant: the live angles win over the hovered frame while Animating
DisplayAnglesLiveFirst(s) ==
    IF HoverValid(s) /\ ~s.isAnimating
    THEN Angles(At(s.trajectory, Val(s.hoverFrame)))
    ELSE s.currentAngles

\* Determine which angles to display (Live vs Scrubbing)
DisplayAngles(s) ==
    IF HoverValid(s)
    THEN Angles(At(s.trajectory, Val(s.hoverFrame)))
    ELSE s.currentAngles

\* drawCanvas(angles) with the lengths of the closure it was created in
Drawing(angles, lengths) == [angles |-> angles, l |-> lengths]

\* a state setter changed the value React compares with Object.is; `fresh`
\* names the fields that were given a newly created array or object
Changed(s, fresh, f) == f \in fresh \/ s[f] # S[f]

\* useEffect(() => { if (!isAnimating || hoverFrame !== null) drawCanvas(displayAngles) },
\*           [displayAngles, targetXY, isAnimating, L1, L2, L3, hoverFrame])
DrawEffectRuns(s, fresh) ==
    \/ HoverValid(s) \/ HoverValid(S) \/ Changed(s, fresh, "currentAngles")
    \/ \E f \in {"targetXY", "isAnimating", "L1", "L2", "L3", "hoverFrame"} :
          Changed(s, fresh, f)

DrawEffect(s, fresh, before) ==
    IF DrawEffectRuns(s, fresh) /\ (~s.isAnimating \/ s.hoverFrame # Null)
    THEN Drawing(DisplayAngles(s), Lengths(s))
    ELSE before

\* the dependencies [isAnimating, trajectory, hoverFrame] of the animation effect
AnimEffectRuns(s, fresh) ==
    \E f \in {"isAnimating", "trajectory", "hoverFrame"} : Changed(s, fresh, f)

\* return () => cancelAnimationFrame(frameId): a pending animation frame is
\* cancelled, a pending setTimeout is not
Escaped(cur) == IF cur # Null /\ Val(cur).st = "timeout" THEN SetToBag({Val(cur)}) ELSE EmptyBag

\* the body of the animation effect: frameIndex = 0; requestAnimationFrame(animate)
StartLoop(s) ==
    IF ~s.isAnimating \/ Len(s.trajectory) = 0 \/ s.hoverFrame # Null
    THEN Null
    ELSE Some([st |-> "raf", frameIndex |-> 0, trajectory |-> s.trajectory,
               l |-> Lengths(s)])

\* displayAngles[0].toFixed(3) throws on undefined: the render fails and
\* React unmounts the component
RenderThrows(s) == \E i \in 1..3 : DisplayAngles(s)[i] = Null

\* The state updates of one handler are applied in one render, which is
\* followed by the effects whose dependencies changed.  `s` is the state the
\* handler asked for, `drawn` the canvas after the handler's own drawing,
\* `cur` and `esc` the animation loops after the handler, `reqs` and `old`
\* the suspended click handlers and the superseded ones among them, `user`
\* whether the handler answers a user gesture.
Commit(s, fresh, drawn, cur, esc, reqs, old, user) ==
    LET rerender == \E f \in DOMAIN S : Changed(s, fresh, f)
        crash == rerender /\ RenderThrows(s)
        rerun == rerender /\ AnimEffectRuns(s, fresh)
    IN  /\ L1' = s.L1 /\ L2' = s.L2 /\ L3' = s.L3 /\ duration' = s.duration
        /\ currentAngles' = s.currentAngles
        /\ targetXY' = s.targetXY
        /\ trajectory' = s.trajectory
        /\ isAnimating' = s.isAnimating
        /\ currentFrame' = s.currentFrame
        /\ hoverFrame' = s.hoverFrame
        /\ error' = s.error
        /\ displayAngles' = DisplayAngles(s)
        /\ mounted' = (mounted /\ ~crash)
        /\ canvas' = IF rerender /\ ~crash THEN DrawEffect(s, fresh, drawn) ELSE drawn
        /\ curLoop' = IF crash THEN Null
                      ELSE IF rerun THEN StartLoop(s)
                      ELSE cur
        /\ leaked' = IF crash \/ rerun THEN esc (+) Escaped(cur) ELSE esc
        /\ inflight' = reqs
        /\ superseded' = old
        /\ scrubStart' = IF s.hoverFrame = Null \/ s.isAnimating THEN Null
                         ELSE IF hoverFrame = Null THEN Some(currentAngles)
                         ELSE scrubStart
        /\ gestures' = IF user /\ rerender THEN gestures + 1 ELSE gestures
        /\ gestures' <= MaxGestures
        /\ calls' = calls

\* the state of the dashboard after its first render
InitDashboard(l1, l2, l3) ==
    /\ L1 = l1 /\ L2 = l2 /\ L3 = l3 /\ duration = 5
    /\ currentAngles = HomePose
    /\ targetXY = Null
    /\ trajectory = << >>
    /\ isAnimating = FALSE
    /\ currentFrame = 0
    /\ hoverFrame = Null
    /\ error = Null
    /\ displayAngles = HomePose
    /\ canvas = Drawing(HomePose, <<l1, l2, l3>>)
    /\ inflight = EmptyBag
    /\ curLoop = Null
    /\ leaked = EmptyBag
    /\ mounted = TRUE
    /\ superseded = EmptyBag
    /\ scrubStart = Null
    /\ gestures = 0

Init == InitDashboard(100, 80, 60) /\ calls = << >>

----------------------------------------------------------------------------
(* The click handler: handleCanvasClick up to its await, and after it *)

\* mutant: the request carries the angles on display
RequestDisplayed(target) ==
    [current_angles |-> displayAngles, target_x |-> target.x, target_y |-> target.y,
     duration |-> duration, l1 |-> L1, l2 |-> L2, l3 |-> L3]

\* the body of the POST request, with the closure the handler resumes in
\* (dt is the constant 0.05)
Request(target) ==
    [current_angles |-> currentAngles, target_x |-> target.x, target_y |-> target.y,
     duration |-> duration, l1 |-> L1, l2 |-> L2, l3 |-> L3]

\* mutant: the click leaves the error of an earlier request on display
ClickedKeepsError(target) == [S EXCEPT !.targetXY = Some(target)]

\* setTargetXY(target); setError(null)
Clicked(target) == [S EXCEPT !.targetXY = Some(target), !.error = Null]

CanvasClick(p) ==
    /\ mounted
    /\ ~isAnimating
    /\ LET target == ClampTarget(toRobotCoords(p.cx, p.cy), L1, L2, L3)
       IN  Commit(Clicked(target), {"targetXY"}, canvas, curLoop, leaked,
                  inflight (+) SetToBag({Request(target)}), inflight, TRUE)

\* if (isAnimating) return
CanvasClickIgnored ==
    /\ mounted
    /\ isAnimating
    /\ UNCHANGED vars

\* err.message of what the try block throws, or null when nothing is thrown
Thrown(reply) ==
    CASE reply.status = "rejected" -> Some("Failed to fetch")
      [] reply.status = "notok" ->
            IF reply.detail # Null THEN reply.detail
            ELSE Some("Failed to generate trajectory")
      [] reply.status = "ok" /\ reply.trajectory = Null ->
            Some("Cannot read properties of undefined (reading 'map')")
      [] OTHER -> Null

\* mutant: the end effector is computed with the lengths of the latest render
LoadedCurrentLengths(req, reply) ==
    [S EXCEPT !.trajectory = Enrich(Val(reply.trajectory), L1, L2, L3),
              !.currentFrame = 0,
              !.isAnimating = TRUE]

\* the state updates of the try block
Loaded(req, reply) ==
    [S EXCEPT !.trajectory = Enrich(Val(reply.trajectory), req.l1, req.l2, req.l3),
              !.currentFrame = 0,
              !.isAnimating = TRUE]

\* mutant: the catch block forgets the target marker
FailedKeepsMarker(msg) == [S EXCEPT !.error = msg]

\* the state updates of the catch block
Failed(msg) == [S EXCEPT !.error = msg, !.targetXY = Null]

\* the awaited fetch of one suspended handler settles and the handler runs
\* to its end; the setters of an unmounted component do nothing
Response(req, stale, reply) ==
    /\ IF stale THEN BagIn(req, superseded)
       ELSE CopiesIn(req, inflight) > CopiesIn(req, superseded)
    /\ LET rest == inflight (-) SetToBag({req})
           old == IF stale THEN superseded (-) SetToBag({req}) ELSE superseded
       IN  IF ~mounted
           THEN Commit(S, {}, canvas, curLoop, leaked, rest, old, FALSE)
           ELSE IF Thrown(reply) # Null
           THEN Commit(Failed(Thrown(reply)), {}, canvas, curLoop, leaked, rest, old, FALSE)
           ELSE Commit(Loaded(req, reply), {"trajectory"}, canvas, curLoop, leaked,
                       rest, old, FALSE)

----------------------------------------------------------------------------
(* The animation loop *)

\* mutant: the completion of the playback removes the target marker
AnimateStateClearsMarker(loop) ==
    IF loop.frameIndex >= Len(loop.trajectory)
    THEN [S EXCEPT !.isAnimating = FALSE,
                   !.targetXY = Null,
                   !.currentAngles = Angles(loop.trajectory[Len(loop.trajectory)])]
    ELSE [S EXCEPT !.currentFrame = loop.frameIndex,
                   !.currentAngles = Angles(At(loop.trajectory, loop.frameIndex))]

\* the state updates of animate() for a loop at frameIndex
AnimateState(loop) ==
    IF loop.frameIndex >= Len(loop.trajectory)
    THEN [S EXCEPT !.isAnimating = FALSE,
                   !.currentAngles = Angles(loop.trajectory[Len(loop.trajectory)])]
    ELSE [S EXCEPT !.currentFrame = loop.frameIndex,
                   !.currentAngles = Angles(At(loop.trajectory, loop.frameIndex))]

\* the pending animation frame of a loop fires: animate().  An unmounted
\* component ignores the setters and has no canvas to draw on.
Animate(loop, owned) ==
    /\ loop.st = "raf"
    /\ LET done == loop.frameIndex >= Len(loop.trajectory)
           next == [loop EXCEPT !.st = "timeout", !.frameIndex = loop.frameIndex + 1]
           cur == IF ~owned THEN curLoop ELSE IF done THEN Null ELSE Some(next)
           esc == IF owned THEN leaked
                  ELSE (leaked (-) SetToBag({loop}))
                       (+) (IF done THEN EmptyBag ELSE SetToBag({next}))
       IN  IF ~mounted
           THEN Commit(S, {}, canvas, cur, esc, inflight, superseded, FALSE)
           ELSE IF done
           THEN Commit(AnimateState(loop), {"currentAngles"}, canvas, cur, esc,
                       inflight, superseded, FALSE)
           ELSE Commit(AnimateState(loop), {"currentAngles"},
                       Drawing(Angles(At(loop.trajectory, loop.frameIndex)), loop.l),
                       cur, esc, inflight, superseded, FALSE)

\* the 50 ms timeout of a loop fires: frameId = requestAnimationFrame(animate)
Timeout(loop, owned) ==
    /\ loop.st = "timeout"
    /\ LET next == [loop EXCEPT !.st = "raf"]
           cur == IF owned THEN Some(next) ELSE curLoop
           esc == IF owned THEN leaked
                  ELSE (leaked (-) SetToBag({loop})) (+) SetToBag({next})
       IN  Commit(S, {}, canvas, cur, esc, inflight, superseded, FALSE)

AnimateOwned == curLoop # Null /\ Animate(Val(curLoop), TRUE)
AnimateLeaked == \E loop \in BagToSet(leaked) : Animate(loop, FALSE)
TimeoutOwned == curLoop # Null /\ Timeout(Val(curLoop), TRUE)
TimeoutLeaked == \E loop \in BagToSet(leaked) : Timeout(loop, FALSE)

----------------------------------------------------------------------------
(* Chart hover, controls, Reset *)

\* onMouseMove with e.activeTooltipIndex = i, an index of the chart's data
HoverMove(i) ==
    /\ mounted
    /\ i < Len(trajectory)
    /\ Commit([S EXCEPT !.hoverFrame = Some(i)], {}, canvas, curLoop, leaked,
              inflight, superseded, TRUE)

\* onMouseLeave
HoverLeave ==
    /\ mounted
    /\ Commit([S EXCEPT !.hoverFrame = Null], {}, canvas, curLoop, leaked,
              inflight, superseded, FALSE)

\* mutant: a length change recomputes the end effector of the stored samples
SetL1Recomputes(v) ==
    /\ mounted
    /\ Commit([S EXCEPT !.L1 = v, !.trajectory = Enrich(trajectory, v, L2, L3)],
              {"trajectory"}, canvas, curLoop, leaked, inflight, superseded, TRUE)

SetL1(v) ==
    /\ mounted
    /\ Commit([S EXCEPT !.L1 = v], {}, canvas, curLoop, leaked, inflight, superseded, TRUE)

SetL2(v) ==
    /\ mounted
    /\ Commit([S EXCEPT !.L2 = v], {}, canvas, curLoop, leaked, inflight, superseded, TRUE)

SetL3(v) ==
    /\ mounted
    /\ Commit([S EXCEPT !.L3 = v], {}, canvas, curLoop, leaked, inflight, superseded, TRUE)

SetDuration(v) ==
    /\ mounted
    /\ Commit([S EXCEPT !.duration = v], {}, canvas, curLoop, leaked, inflight,
              superseded, TRUE)

\* the state updates of the Reset Pose button
ResetState ==
    [S EXCEPT !.currentAngles = HomePose,
              !.trajectory = << >>,
              !.targetXY = Null,
              !.error = Null,
              !.hoverFrame = Null]

Reset ==
    /\ mounted
    /\ Commit(ResetState, {"currentAngles", "trajectory"}, canvas, curLoop, leaked,
              inflight, inflight, TRUE)

----------------

Next ==
    \/ \E p \in ClickPoints : CanvasClick(p)
    \/ CanvasClickIgnored
    \/ \E req \in BagToSet(inflight), stale \in BOOLEAN, reply \in Replies :
          Response(req, stale, reply)
    \/ AnimateOwned
    \/ AnimateLeaked
    \/ TimeoutOwned
    \/ TimeoutLeaked
    \/ \E i \in 0..(MaxLen - 1) : HoverMove(i)
    \/ HoverLeave
    \/ Reset

Spec == Init /\ [][Next]_vars

\* The runs in which the user waits for the answer before clicking again:
\* no two requests are ever outstanding together.
NextOneRequest ==
    \/ \E p \in ClickPoints : inflight = EmptyBag /\ CanvasClick(p)
    \/ CanvasClickIgnored
    \/ \E req \in BagToSet(inflight), stale \in BOOLEAN, reply \in Replies :
          Response(req, stale, reply)
    \/ AnimateOwned
    \/ AnimateLeaked
    \/ TimeoutOwned
    \/ TimeoutLeaked
    \/ \E i \in 0..(MaxLen - 1) : HoverMove(i)
    \/ HoverLeave
    \/ Reset

SpecOneRequest == Init /\ [][NextOneRequest]_vars

\* some pending fetch settles and its handler resumes
Settle ==
    \E req \in BagToSet(inflight), stale \in BOOLEAN, reply \in Replies :
        Response(req, stale, reply)

\* The browser runs every pending animation frame and every pending timer,
\* and every fetch settles (with an answer or with a rejection).
SpecFair ==
    /\ SpecOneRequest
    /\ WF_vars(AnimateOwned) /\ WF_vars(AnimateLeaked)
    /\ WF_vars(TimeoutOwned) /\ WF_vars(TimeoutLeaked)
    /\ WF_vars(Settle)

\* the sliders of the controls panel
Controls ==
    \/ \E v \in L1Values : SetL1(v)
    \/ \E v \in L2Values : SetL2(v)
    \/ \E v \in L3Values : SetL3(v)
    \/ \E v \in DurationValues : SetDuration(v)

\* Clicks all over the canvas, for link lengths all over the slider ranges:
\* the base, points inside every reach, points between the smallest and the
\* largest reach, a point 0.1 beyond the reach of the initial lengths, a
\* point beyond every reach; in all four quadrants and on the axes.
ReachClickPoints ==
    { [cx |-> 300, cy |-> 300],      \* robot (0, 0)
      [cx |-> 303, cy |-> 296],      \* robot (3, 4), distance 5
      [cx |-> 300, cy |-> 61],       \* robot (0, 239), distance 239
      [cx |-> 492, cy |-> 156],      \* robot (192, 144), distance 240
      [cx |-> 60, cy |-> 300],       \* robot (-240, 0), distance 240
      [cx |-> 480, cy |-> 60],       \* robot (180, 240), distance 300
      [cx |-> 120, cy |-> 540],      \* robot (-180, -240), distance 300
      [cx |-> 540, cy |-> 575],      \* robot (240, -275), distance 365
      [cx |-> 580, cy |-> 6] }       \* robot (280, 294), distance 406

\* lengths the sliders can be left at (min, an inner value, max)
L1Range == {50, 100, 150}
L2Range == {50, 80, 150}
L3Range == {30, 60, 100}

InitLengths ==
    /\ \E l1 \in L1Range, l2 \in L2Range, l3 \in L3Range : InitDashboard(l1, l2, l3)
    /\ calls = << >>

\* the click handler alone: clicks on the Idle dashboard and their answers
NextReach ==
    \/ \E p \in ReachClickPoints : inflight = EmptyBag /\ CanvasClick(p)
    \/ Settle

SpecReach == InitLengths /\ [][NextReach]_vars

\* The runs of SpecOneRequest in which the user also moves the sliders.
NextControls ==
    \/ NextOneRequest
    \/ Controls

SpecControls == Init /\ [][NextControls]_vars

----------------------------------------------------------------------------
(* The pure helpers, called on their own *)

Call(fn, arg) == [fn |-> fn, arg |-> arg, ret |-> Null]

\* what the called helper returns
Result(c) ==
    CASE c.fn = "toCanvasCoords" ->
            LET r == toCanvasCoords(c.arg[1], c.arg[2]) IN <<r.cx, r.cy>>
      [] c.fn = "toRobotCoords" ->
            LET r == toRobotCoords(c.arg[1], c.arg[2]) IN <<r.x, r.y>>
      [] c.fn = "getLiveJacobian" -> getLiveJacobian(c.arg, L1, L2, L3)
      [] c.fn = "getJointPositions" ->
            getJointPositions(c.arg[1], c.arg[2][1], c.arg[2][2], c.arg[2][3])

\* the pending call returns
Return ==
    /\ calls # << >>
    /\ calls[Len(calls)].ret = Null
    /\ calls' = [calls EXCEPT ![Len(calls)].ret = Some(Result(calls[Len(calls)]))]
    /\ UNCHANGED dashboard

\* the point a mapping returned is given to the opposite mapping
MapBack ==
    /\ Len(calls) = 1
    /\ calls[1].ret # Null
    /\ calls' = Append(calls,
                       Call(IF calls[1].fn = "toCanvasCoords" THEN "toRobotCoords"
                            ELSE "toCanvasCoords",
                            Val(calls[1].ret)))
    /\ UNCHANGED dashboard

\* coordinates on, inside and outside the canvas and the workspace
Coordinates == {-300, -1, 0, 1, 150, 300, 600}

InitMapper ==
    /\ InitDashboard(100, 80, 60)
    /\ calls \in {<<Call(fn, <<a, b>>)>> :
                    fn \in {"toCanvasCoords", "toRobotCoords"},
                    a \in Coordinates, b \in Coordinates}

NextMapper == Return \/ MapBack

SpecMapper == InitMapper /\ [][NextMapper]_vars

\* the joint angles (a, b, c), in units of pi/4
Q(a, b, c) == <<Some(a), Some(b), Some(c)>>

\* the zero pose, the home pose, and poses with a full turn or a right angle
JacobianAngles == {Q(0, 0, 0), HomePose, Q(8, -8, 0), Q(2, 0, 0)}

\* getLiveJacobian(displayAngles) in a render with any lengths of the sliders
InitJacobian ==
    /\ \E l1 \in L1Range, l2 \in L2Range, l3 \in L3Range : InitDashboard(l1, l2, l3)
    /\ calls \in {<<Call("getLiveJacobian", q)>> : q \in JacobianAngles}

NextJacobian == Return

SpecJacobian == InitJacobian /\ [][NextJacobian]_vars

KinematicsAngles == {-1, 0, 2, 3}
KinematicsLengths == {<<0, 0, 0>>, <<100, 80, 60>>, <<50, 150, 30>>}

\* getJointPositions(q, l1, l2, l3) with explicit lengths
InitKinematics ==
    /\ InitDashboard(100, 80, 60)
    /\ calls \in {<<Call("getJointPositions", <<Q(a, b, c), l>>)>> :
                    a \in KinematicsAngles, b \in KinematicsAngles,
                    c \in KinematicsAngles, l \in KinematicsLengths}

NextKinematics == Return

SpecKinematics == InitKinematics /\ [][NextKinematics]_vars

----------------------------------------------------------------------------
(* Steps the properties speak about *)

Finished(loop) == loop.frameIndex >= Len(loop.trajectory)

\* an animation tick: animate() runs in the mounted component
Tick == mounted /\ (AnimateOwned \/ AnimateLeaked)

\* an animation tick of a loop that plays the stored trajectory
TickOfTrajectory ==
    /\ mounted
    /\ \/ AnimateOwned
       \/ \E loop \in BagToSet(leaked) :
             loop.trajectory = trajectory /\ Animate(loop, FALSE)

\* an animation tick that shows a frame: setCurrentFrame, setCurrentAngles, drawCanvas
FrameTick ==
    /\ mounted
    /\ \/ curLoop # Null /\ ~Finished(Val(curLoop)) /\ AnimateOwned
       \/ \E loop \in BagToSet(leaked) : ~Finished(loop) /\ Animate(loop, FALSE)

\* an animation tick that finds its trajectory played to the end
CompletionTick ==
    /\ mounted
    /\ \/ curLoop # Null /\ Finished(Val(curLoop)) /\ AnimateOwned
       \/ \E loop \in BagToSet(leaked) : Finished(loop) /\ Animate(loop, FALSE)

\* a handler resumes with a failure: fetch rejected or response not ok
FailedResponse ==
    /\ mounted
    /\ \E req \in BagToSet(inflight), stale \in BOOLEAN, reply \in Replies :
          reply.status # "ok" /\ Response(req, stale, reply)

\* a sample lacks one of time, q1, q2, q3
Lacking(pt) == pt.time = Null \/ pt.q1 = Null \/ pt.q2 = Null \/ pt.q3 = Null

\* a handler resumes with a success response whose trajectory data is
\* missing or malformed
BadDataResponse ==
    /\ mounted
    /\ \E req \in BagToSet(inflight), stale \in BOOLEAN, reply \in Replies :
          /\ reply.status = "ok"
          /\ \/ reply.trajectory = Null
             \/ \E i \in 1..Len(Val(reply.trajectory)) : Lacking(Val(reply.trajectory)[i])
          /\ Response(req, stale, reply)

\* a handler resumes whose request a Reset or a newer request came after
StaleResponse ==
    /\ mounted
    /\ \E req \in BagToSet(inflight), reply \in Replies : Response(req, TRUE, reply)

----------------------------------------------------------------------------
(* C1 .. C10 *)

\* C1: in every state the display angles are those of trajectory[hoverFrame]
\* when hoverFrame is non-null and the trajectory has a sample at that
\* index, whether isAnimating or not, and currentAngles in every other case.
C1_DisplayPrecedence ==
    IF hoverFrame # Null /\ Val(hoverFrame) < Len(trajectory)
    THEN displayAngles = << trajectory[Val(hoverFrame) + 1].q1,
                            trajectory[Val(hoverFrame) + 1].q2,
                            trajectory[Val(hoverFrame) + 1].q3 >>
    ELSE displayAngles = currentAngles

\* scrubbing while Animating shows the hovered sample, not the live angles
C1_Witness ==
    /\ mounted /\ isAnimating
    /\ hoverFrame # Null /\ Val(hoverFrame) < Len(trajectory)
    /\ displayAngles # currentAngles
    /\ displayAngles = Angles(At(trajectory, Val(hoverFrame)))

\* C2: while a hover frame is active during Animating, no animation tick
\* fires that draws the canvas.
C2_NoTickWhileScrubbing ==
    [][(hoverFrame # Null /\ isAnimating) => ~FrameTick]_vars

\* C3: a hover-leave while Animating resumes playback at the frame index
\* Animating had reached, not at an earlier one: the displayed angles are
\* those of frame currentFrame and the loop goes on from there.
C3_ScrubKeepsFrameIndex ==
    [][(HoverLeave /\ hoverFrame # Null /\ isAnimating /\ currentFrame > 0
            /\ currentFrame < Len(trajectory))
        => /\ displayAngles' = Angles(At(trajectory, currentFrame))
           /\ curLoop' # Null
           /\ Val(curLoop').frameIndex >= currentFrame]_vars

\* C4: the tick that finds the trajectory played to the end leaves the
\* controller Idle with the last sample's angles, and once Idle no animation
\* tick of that trajectory changes currentAngles or currentFrame.
C4_CompletionStopsClock ==
    [][/\ (CompletionTick /\ TickOfTrajectory)
            => /\ ~isAnimating'
               /\ currentAngles' = Angles(trajectory[Len(trajectory)])
       /\ (TickOfTrajectory /\ ~isAnimating)
            => /\ currentAngles' = currentAngles
               /\ currentFrame' = currentFrame]_vars

\* C5: a Reset leaves the controller Idle, at the home pose, with an empty
\* trajectory, no target marker, no error and no hover frame.
C5_ResetToIdle ==
    [][Reset => /\ ~isAnimating'
                /\ hoverFrame' = Null
                /\ currentAngles' = HomePose
                /\ trajectory' = << >>
                /\ targetXY' = Null
                /\ error' = Null]_vars

\* C6: once a Reset has cleared the trajectory, no animation tick changes
\* currentAngles or currentFrame until a trajectory is loaded.
C6_ResetStopsClock ==
    [][(Tick /\ trajectory = << >>)
        => /\ currentAngles' = currentAngles
           /\ currentFrame' = currentFrame]_vars

\* C7: at most one trajectory request is outstanding at any time.
C7_OneOutstandingRequest == BagCardinality(inflight) <= 1

\* C8: the response to a superseded request is discarded: it sets none of
\* trajectory, isAnimating, currentFrame, targetXY, error.
C8_StaleResponseDiscarded ==
    [][StaleResponse
        => UNCHANGED <<trajectory, isAnimating, currentFrame, targetXY, error>>]_vars

\* C9: a failed request leaves currentAngles, trajectory, currentFrame and
\* isAnimating as they were (an Idle controller stays Idle), clears the
\* target marker, sets the error and issues no request.
C9_FailureKeepsIdle ==
    [][FailedResponse
        => /\ UNCHANGED <<currentAngles, trajectory, currentFrame, isAnimating>>
           /\ targetXY' = Null
           /\ error' # Null
           /\ BagCardinality(inflight') = BagCardinality(inflight) - 1]_vars

\* a request issued from Idle has failed: the marker is gone, the error shown
C9_Witness ==
    /\ mounted /\ ~isAnimating
    /\ error # Null /\ targetXY = Null
    /\ trajectory = << >> /\ currentAngles = HomePose
    /\ inflight = EmptyBag

\* C10: a success response with missing or malformed trajectory data is
\* handled like a failure: nothing is installed, isAnimating stays false,
\* the marker is cleared and the error set.
C10_BadDataIsFailure ==
    [][(BadDataResponse /\ ~isAnimating)
        => /\ UNCHANGED <<trajectory, isAnimating>>
           /\ targetXY' = Null
           /\ error' # Null]_vars

----------------------------------------------------------------------------
(* C11 .. C20 *)

\* C11: under fair ticking a mounted controller that is Animating
\* eventually has isAnimating = false again, whatever led to Animating
\* (an empty answer and a Reset while Animating included), unless the
\* pointer is kept on a chart, which pauses the playback.
C11_RecoversToIdle ==
    (mounted /\ isAnimating) ~> (~mounted \/ ~isAnimating \/ hoverFrame # Null)

\* a handler resumes with an answer that carries a trajectory
SuccessfulResponse ==
    /\ mounted
    /\ \E req \in BagToSet(inflight), stale \in BOOLEAN, reply \in Replies :
          /\ reply.status = "ok" /\ reply.trajectory # Null
          /\ Response(req, stale, reply)

\* C12: the stored trajectory (the ee_x/ee_y of its samples included)
\* changes only in a successful planning response, which replaces it, and in
\* a Reset, which empties it; slider changes, hover events, ticks,
\* completion and failed requests leave it as it is.
C12_TrajectoryFrame ==
    [][trajectory' # trajectory
        => \/ SuccessfulResponse
           \/ Reset /\ trajectory' = << >>]_vars

\* a trajectory planned with L1 = 100 is still stored, with the end effector
\* of that length, after L1 was moved to 150 and the playback has finished
C12_Witness ==
    /\ mounted /\ ~isAnimating
    /\ L1 = 150
    /\ Len(trajectory) = MaxLen
    /\ trajectory[1].ee_x = Some(Num(100 + L2 + L3, 0))
    /\ currentAngles = Angles(trajectory[Len(trajectory)])

\* C13: every sample of a trajectory that a response installs keeps the
\* joint angles the service sent, and its ee_x/ee_y are the last point of the
\* forward kinematics of those angles with the link lengths sent in the
\* request, whatever the lengths are now and whatever ee_x/ee_y the service
\* sent.
C13_EndEffectorOfRequest ==
    [][\A req \in BagToSet(inflight), stale \in BOOLEAN, reply \in Replies :
          (/\ mounted
           /\ reply.status = "ok" /\ reply.trajectory # Null
           /\ Response(req, stale, reply))
          => LET raw == Val(reply.trajectory)
             IN  /\ Len(trajectory') = Len(raw)
                 /\ \A i \in 1..Len(raw) :
                       LET pt == trajectory'[i]
                           ee == getJointPositions(<<pt.q1, pt.q2, pt.q3>>,
                                                   req.l1, req.l2, req.l3)[4]
                       IN  /\ <<pt.time, pt.q1, pt.q2, pt.q3>>
                                = <<raw[i].time, raw[i].q1, raw[i].q2, raw[i].q3>>
                           /\ pt.ee_x = Some(ee.x)
                           /\ pt.ee_y = Some(ee.y)]_vars

\* a trajectory requested with L1 = 100 was installed after L1 had been moved
\* to 150: its first sample has the end effector of L1 = 100, which is neither
\* that of the current lengths nor what the service sent
C13_Witness ==
    /\ mounted /\ isAnimating /\ L1 = 150
    /\ curLoop # Null
    /\ Val(curLoop).l = <<150, L2, L3>>
    /\ Val(curLoop).frameIndex = 0 /\ Val(curLoop).st = "raf"
    /\ trajectory # << >>
    /\ trajectory[1].ee_x = Some(Num(100 + L2 + L3, 0))
    /\ trajectory[1].ee_x # Some(Num(1, 1))
    /\ trajectory[1].ee_x
         # Some(getJointPositions(Angles(trajectory[1]), L1, L2, L3)[4].x)

\* a handler resumes in its catch block
CaughtResponse ==
    /\ mounted
    /\ \E req \in BagToSet(inflight), stale \in BOOLEAN, reply \in Replies :
          Thrown(reply) # Null /\ Response(req, stale, reply)

\* C14: the target marker changes only in an accepted click, which sets it
\* to the clamped target, in a failed request, which clears it, and in a
\* Reset, which clears it; no animation tick, completion included, changes it.
C14_MarkerFrame ==
    [][/\ targetXY' # targetXY
            => \/ \E p \in ClickPoints :
                     /\ CanvasClick(p)
                     /\ targetXY' = Some(ClampTarget(toRobotCoords(p.cx, p.cy),
                                                     L1, L2, L3))
               \/ CaughtResponse /\ targetXY' = Null
               \/ Reset /\ targetXY' = Null
       /\ Tick => targetXY' = targetXY]_vars

\* the playback has run to its end and the marker is still there
C14_Witness ==
    /\ mounted /\ ~isAnimating
    /\ targetXY # Null
    /\ trajectory # << >>
    /\ currentAngles = Angles(trajectory[Len(trajectory)])
    /\ curLoop = Null /\ leaked = EmptyBag

\* a hover event: onMouseMove with a tooltip index, or onMouseLeave
HoverEvent == (\E i \in 0..(MaxLen - 1) : HoverMove(i)) \/ HoverLeave

\* C15: a hover event received while not Animating changes none of
\* currentAngles, trajectory, targetXY, error, isAnimating, and the
\* hover-leave that ends a scrub begun and ended while not Animating displays
\* the committed angles held when the scrub began.
C15_ScrubOverIdle ==
    [][(HoverEvent /\ ~isAnimating)
        => /\ UNCHANGED <<currentAngles, trajectory, targetXY, error, isAnimating>>
           /\ (hoverFrame' = Null /\ scrubStart # Null)
                => displayAngles' = Val(scrubStart)]_vars

\* C16: an accepted click at distance d from the base, with
\* m = L1 + L2 + L3 - 0.1, sets the marker and the target of the request to
\* the clicked point itself when d <= m (d = 0 included) and to m/d times the
\* clicked point, the point at distance m on the ray from the base through
\* it, when d > m.
C16_ClampedTarget ==
    [][\A p \in ReachClickPoints :
          CanvasClick(p)
          => LET x == p.cx - 300
                 y == 300 - p.cy
                 d == CHOOSE r \in 0..600 : r * r = x * x + y * y
                 m10 == 10 * (L1 + L2 + L3) - 1
                 t == Val(targetXY')
             IN  /\ targetXY' # Null
                 /\ 10 * d <= m10 => t = [x |-> [n |-> x, d |-> 1],
                                          y |-> [n |-> y, d |-> 1]]
                 /\ 10 * d > m10 => /\ t.x.n * 10 * d = x * m10 * t.x.d
                                    /\ t.y.n * 10 * d = y * m10 * t.y.d
                 /\ \E req \in BagToSet(inflight') :
                       /\ inflight' = inflight (+) SetToBag({req})
                       /\ req.target_x = t.x /\ req.target_y = t.y]_vars

\* a click at distance 240 with lengths summing to 240: the marker is pulled
\* in by the 0.1 buffer, to 239.9/240 of the clicked point (192, 144)
C16_Witness ==
    /\ mounted /\ L1 + L2 + L3 = 240
    /\ inflight # EmptyBag
    /\ targetXY = Some([x |-> [n |-> 4798, d |-> 25], y |-> [n |-> 7197, d |-> 50]])

\* C17: each of toCanvasCoords and toRobotCoords, applied to what the other
\* returned, gives back the point the other was applied to, and the base
\* (0, 0) is the canvas point (300, 300).
C17_MapperRoundTrip ==
    /\ (Len(calls) = 2 /\ calls[2].ret # Null) => Val(calls[2].ret) = calls[1].arg
    /\ \A i \in 1..Len(calls) :
          (calls[i].ret # Null /\ calls[i].arg = <<0, 0>>)
          => Val(calls[i].ret) = IF calls[i].fn = "toCanvasCoords"
                                 THEN <<300, 300>> ELSE <<-300, 300>>

\* the canvas corner (600, 0) is the workspace point (300, 300) and is
\* mapped back to (600, 0)
C17_Witness ==
    /\ Len(calls) = 2
    /\ calls[1] = [fn |-> "toRobotCoords", arg |-> <<600, 0>>, ret |-> Some(<<300, 300>>)]
    /\ calls[2] = [fn |-> "toCanvasCoords", arg |-> <<300, 300>>, ret |-> Some(<<600, 0>>)]

\* C18: for all link lengths of the sliders' ranges the Jacobian at the
\* angles (0, 0, 0) is [[0, 0, 0], [L1 + L2 + L3, L2 + L3, L3]].
C18_JacobianAtZero ==
    \A i \in 1..Len(calls) :
        (/\ calls[i].fn = "getLiveJacobian"
         /\ calls[i].arg = <<Some(0), Some(0), Some(0)>>
         /\ calls[i].ret # Null)
        => Val(calls[i].ret)
             = << << Num(0, 0), Num(0, 0), Num(0, 0) >>,
                  << Num(L1 + L2 + L3, 0), Num(L2 + L3, 0), Num(L3, 0) >> >>

\* the Jacobian at the zero pose with the longest links
C18_Witness ==
    /\ L1 = 150 /\ L2 = 150 /\ L3 = 100
    /\ Len(calls) = 1
    /\ calls[1].fn = "getLiveJacobian"
    /\ calls[1].arg = <<Some(0), Some(0), Some(0)>>
    /\ calls[1].ret # Null
    /\ Val(calls[1].ret)[2] = <<Num(400, 0), Num(250, 0), Num(100, 0)>>

\* C19: forward kinematics returns exactly 4 points, the first (0, 0), each
\* next one the previous one plus the link's length times (cos, sin) of the
\* sum of the joint angles up to that link; with all-zero lengths all 4
\* points are the base.
C19_KinematicChain ==
    \A i \in 1..Len(calls) :
        (calls[i].fn = "getJointPositions" /\ calls[i].ret # Null)
        => LET q == calls[i].arg[1]
               l == calls[i].arg[2]
               pts == Val(calls[i].ret)
               a1 == q[1][1]
               a2 == a1 + q[2][1]
               a3 == a2 + q[3][1]
               base == [x |-> Num(0, 0), y |-> Num(0, 0)]
               Link(p, len, a) ==
                   [x |-> Add(p.x, Scale(len, Cos(<<a>>))),
                    y |-> Add(p.y, Scale(len, Sin(<<a>>)))]
           IN  /\ Len(pts) = 4
               /\ pts[1] = base
               /\ pts[2] = Link(pts[1], l[1], a1)
               /\ pts[3] = Link(pts[2], l[2], a2)
               /\ pts[4] = Link(pts[3], l[3], a3)
               /\ l = <<0, 0, 0>> => \A k \in 1..4 : pts[k] = base

\* the chain for the angles (pi/2, -pi/4, 3pi/4) and the lengths
\* (100, 80, 60): (0, 0), (0, 100), (40 sqrt 2, 100 + 40 sqrt 2),
\* (40 sqrt 2 - 60, 100 + 40 sqrt 2)
C19_Witness ==
    /\ Len(calls) = 1
    /\ calls[1].fn = "getJointPositions"
    /\ calls[1].arg = <<Q(2, -1, 3), <<100, 80, 60>>>>
    /\ calls[1].ret
         = Some(<< [x |-> Num(0, 0), y |-> Num(0, 0)],
                   [x |-> Num(0, 0), y |-> Num(100, 0)],
                   [x |-> Num(0, 80), y |-> Num(100, 80)],
                   [x |-> Num(-60, 80), y |-> Num(100, 80)] >>)

\* the animation loops that have a timeout or an animation frame pending
Loops == (IF curLoop = Null THEN 0 ELSE 1) + BagCardinality(leaked)

\* C20: in every state at most one animation loop is scheduled.
C20_OneLoop == Loops <= 1

----------------------------------------------------------------------------
(* C21 .. C24 *)

\* C21: the request of an accepted click carries the committed angles
\* (currentAngles, not the angles of a hovered frame), the clamped target,
\* and the link lengths and the duration of the moment of the click; its
\* target lies on the ray of the clicked point, within L1 + L2 + L3 - 0.1 of
\* the base for the lengths sent.
C21_RequestOfClick ==
    [][\A p \in ClickPoints :
          CanvasClick(p)
          => \E req \in BagToSet(inflight') :
                LET x == p.cx - 300
                    y == 300 - p.cy
                    d == CHOOSE r \in 0..600 : r * r = x * x + y * y
                    tx == req.target_x
                    ty == req.target_y
                IN  /\ inflight' = inflight (+) SetToBag({req})
                    /\ req.current_angles = currentAngles
                    /\ <<req.l1, req.l2, req.l3>> = <<L1, L2, L3>>
                    /\ req.duration = duration
                    /\ targetXY' = Some([x |-> tx, y |-> ty])
                    /\ [x |-> tx, y |-> ty]
                         = ClampTarget([x |-> x, y |-> y], L1, L2, L3)
                    \* on the ray: cross product 0, and the distance from the
                    \* base, (tx * x + ty * y) / d, is at most the reach
                    /\ tx.n * y * ty.d = ty.n * x * tx.d
                    /\ 10 * (tx.n * x * ty.d + ty.n * y * tx.d)
                         <= (10 * (req.l1 + req.l2 + req.l3) - 1) * d * tx.d * ty.d]_vars

\* a click while scrubbing over the Idle dashboard: the request in flight
\* carries the committed angles, which are not the displayed ones
C21_Witness ==
    /\ mounted /\ ~isAnimating
    /\ hoverFrame # Null /\ displayAngles # currentAngles
    /\ \E req \in BagToSet(inflight) :
          /\ req.current_angles = currentAngles
          /\ targetXY = Some([x |-> req.target_x, y |-> req.target_y])

\* C22: after every event the pose last drawn on the canvas is the pose of
\* the display angles with the current link lengths.
C22_CanvasShowsDisplay ==
    mounted => canvas = [angles |-> displayAngles, l |-> <<L1, L2, L3>>]

\* C23: whenever the trajectory is not empty, the index of the charts'
\* reference marker, hoverFrame when it is not null and currentFrame
\* otherwise, is an index of the trajectory.
C23_MarkerIndexValid ==
    (mounted /\ trajectory # << >>)
    => (IF hoverFrame # Null THEN Val(hoverFrame) ELSE currentFrame) < Len(trajectory)

\* C24: in every state a non-null error implies that there is no target
\* marker.
C24_ErrorMeansNoMarker == (mounted /\ error # Null) => targetXY = Null

\* of two requests the first has failed and the second has succeeded: the
\* error is on display, the marker is gone, the playback runs
C24_Witness ==
    /\ mounted /\ error # Null /\ targetXY = Null
    /\ isAnimating /\ trajectory # << >>

============================================================================
